---------------------------- MODULE Spec2Model ----------------------------
(***************************************************************************)
(* State-machine model of the BedTimeESP relay firmware                    *)
(* (firmware/ESP8266-MQTT-HTTP/src/main.cpp): EEPROM configuration store,  *)
(* relay driver with write throttle, WiFi station / access-point bring-up, *)
(* HTTP request surface, MQTT session and the low-heap guard of loop().    *)
(*                                                                         *)
(* setup() and loop() are single-threaded; each is cut at the points where *)
(* it yields to the outside world (one HTTP request, one MQTT packet, one  *)
(* reading of the free heap, one delay), so every action below is one      *)
(* handler or one block of the source, run to completion.                  *)
(***************************************************************************)
EXTENDS Integers, Sequences, FiniteSets, TLC

(***************************************************************************)
(* Program constants                                                       *)
(***************************************************************************)
EEPROM_SIZE == 256
MAGIC_ADDR == 0
MAGIC_VAL == 165
HOST_ADDR == 1
SSID_ADDR == 33
PASS_ADDR == 65
APF_ADDR == 129
STATE_ADDR == 130
HOST_LEN == 32
SSID_LEN == 32
PASS_LEN == 64
STATE_WRITE_MIN == 5000
HB_INTERVAL == 30000
STA_TIMEOUT == 10000
STA_POLL_DELAY == 200
LOOP_DELAY == 2
HEAP_HIGH == 12000
HEAP_LOW == 10000

(***************************************************************************)
(* Bounds of the model                                                     *)
(***************************************************************************)
\* the clock is sampled every Quantum ms, up to MaxQuanta samples per boot
Quantum == 2500
MaxQuanta == 6
\* history counters saturate here
MaxCount == 3

MaxClock == MaxQuanta * Quantum

\* how long one pass through a delay() can take: the delay itself plus the
\* time spent in the handlers, as whole quanta
Durations == {Quantum, 2 * Quantum}

\* values ESP.getFreeHeap() can return, on both sides of each watermark and
\* on the watermarks themselves
HeapSamples == {9999, 10000, 12000, 12001}

(***************************************************************************)
(* C strings are sequences of non-zero bytes                               *)
(***************************************************************************)
Min(a, b) == IF a < b THEN a ELSE b

Rep(c, n) == [i \in 1..n |-> c]

S_remoteswitch == <<114, 101, 109, 111, 116, 101, 115, 119, 105, 116, 99, 104>>
S_empty == <<>>
S_n == <<110>>
S_net == <<110, 101, 116>>
S_pw == <<112, 119>>
S_dev == <<100, 101, 118>>
\* longer than the 32-byte hostname field
S_longhost == Rep(104, 33)
\* exactly as long as the 32-byte network-name field
S_longssid == Rep(115, 32)
\* longer than the 64-byte secret field
S_longpass == Rep(112, 65)

\* millis() and the timestamps are unsigned long, 32 bits on the ESP8266.
\* A value is held as the integer with the same 32 bits in two's complement,
\* so that the unsigned difference a - b (mod 2^32) is below 2^31 exactly
\* when the integer difference is not negative, and then equals it.
\* unsigned (a - b) < k, for 0 < k < 2^31
ULess(a, b, k) == LET d == a - b IN d >= 0 /\ d < k

\* unsigned (a - b) > k, for 0 < k < 2^31
UGreater(a, b, k) == LET d == a - b IN d < 0 \/ d > k

(***************************************************************************)
(* EEPROM helpers                                                          *)
(***************************************************************************)
\* EEPROM.write(addr, v) on the buffer mem
EWrite(mem, addr, v) == [mem EXCEPT ![addr] = v]

\* eWriteStr that always ends the string with a NUL of its own, after the
\* field when the string fills it
eWriteStr_Terminated(mem, addr, s, maxLen) ==
    [a \in DOMAIN mem |->
        IF a >= addr /\ a <= addr + maxLen
        THEN (IF a - addr < Len(s) /\ a - addr < maxLen
              THEN s[a - addr + 1] ELSE 0)
        ELSE mem[a]]

\* eWriteStr(addr, s, maxLen): maxLen bytes, the string then NUL padding
eWriteStr(mem, addr, s, maxLen) ==
    [a \in DOMAIN mem |->
        IF a >= addr /\ a < addr + maxLen
        THEN (IF a - addr < Len(s) THEN s[a - addr + 1] ELSE 0)
        ELSE mem[a]]

\* number of bytes the loop of eReadStr copies before it meets a NUL
RECURSIVE ScanLen(_, _, _, _)
ScanLen(mem, addr, i, maxLen) ==
    IF i >= maxLen THEN maxLen
    ELSE IF mem[addr + i] = 0 THEN i
    ELSE ScanLen(mem, addr, i + 1, maxLen)

\* eReadStr(addr, buf, maxLen): the C string left in buf
eReadStr(mem, addr, maxLen) ==
    LET n == Min(ScanLen(mem, addr, 0, maxLen), maxLen - 1)
    IN  [i \in 1..n |-> mem[addr + i - 1]]

(***************************************************************************)
(* Inputs                                                                  *)
(***************************************************************************)
Req(k, s, p, h) == [kind |-> k, ssid |-> s, pass |-> p, host |-> h]

NoReq == Req("none", S_empty, S_empty, S_empty)

\* POST /save bodies: network name missing, one character, ordinary, and
\* values that reach or exceed the capacity of their field
SaveRequests ==
    { Req("save", S_empty, S_pw, S_dev),
      Req("save", S_n, S_pw, S_empty),
      Req("save", S_longssid, S_longpass, S_longhost) }

\* what web.handleClient() can find waiting: nothing or one request (GET /
\* only sends the page kept in flash and is left out)
Requests ==
    { NoReq,
      Req("on", S_empty, S_empty, S_empty),
      Req("off", S_empty, S_empty, S_empty),
      Req("status", S_empty, S_empty, S_empty) } \cup SaveRequests

Msg(ok, swInt, sw, cmdStr, cmd) ==
    [parsed |-> ok, switchIsInt |-> swInt, switch |-> sw,
     commandIsStr |-> cmdStr, command |-> cmd]

NoMsg == [parsed |-> FALSE, switchIsInt |-> FALSE, switch |-> 0,
          commandIsStr |-> FALSE, command |-> "-"]

\* payloads that can arrive on the control topic: the two commands, another
\* target, another command word, no integer target, no string command, and
\* bytes that are not JSON
Messages ==
    { Msg(TRUE, TRUE, 1, TRUE, "on"),
      Msg(TRUE, TRUE, 1, TRUE, "off"),
      Msg(TRUE, TRUE, 2, TRUE, "on"),
      Msg(TRUE, TRUE, 1, TRUE, "toggle"),
      Msg(TRUE, FALSE, 0, TRUE, "on"),
      Msg(TRUE, TRUE, 1, FALSE, ""),
      Msg(FALSE, FALSE, 0, FALSE, "") }

None == 0 - 1

(***************************************************************************)
(* State                                                                   *)
(***************************************************************************)
VARIABLES
    pc,             \* position in setup() / loop(): "reset", "setup",
                    \* "sta_wait", "setup_end", "loop_web", "loop_mqtt",
                    \* "loop_hb", "loop_guard"
    clock,          \* millis()
    eeprom,         \* committed EEPROM content, address -> byte
    hostnameLocal, storedSSID, storedPASS, apFallback, relayState,
    lastStateWrite, lastHeartbeat,
    pin,            \* level of RELAY_PIN: 0 LOW, 1 HIGH
    start,          \* setup(): start of the station wait
    staConnected,   \* setup(): outcome of the station wait
    wifiMode,       \* radio roles enabled, subset of {"STA", "AP"}
    staLink,        \* the station is associated (WiFi.status() == WL_CONNECTED)
    mqttConn,       \* mqtt.connected()
    statusPub,      \* retained payload on the status topic at the broker
    \* ---- observations of the last step and history of the current boot ----
    http,           \* HTTP exchange completed by the last step
    persist,        \* outcome of its saveRelayState call: "none", "throttled", "committed"
    fallbackHeap,   \* free heap its fallback test in setup() read, None if none
    mqttOut,        \* what it sent to the broker, in order
    connectFailed,  \* the MQTT block of the last loop() pass called mqtt.connect() in vain
    loadedValid,    \* the sentinel matched when loadConfig() ran
    teardowns,      \* executions of the low-heap teardown block
    seenSince,      \* heap bands met by the loop() passes after the teardown
    burstStart,     \* time of the first saveRelayState call of the current burst
    burstCommits,   \* relay-state commits within the current burst
    \* ---- the raw-socket sketch (src/unnamed/part_000), which shares
    \* pc, eeprom, pin, wifiMode and staLink ----
    settings,       \* its Config struct in RAM, offset -> byte
    count,          \* startWiFiClient(): polls made
    relayStatus     \* its relay flag

ram == <<hostnameLocal, storedSSID, storedPASS, apFallback, relayState,
         lastStateWrite, lastHeartbeat>>
radio == <<wifiMode, staLink>>
session == <<mqttConn, statusPub>>
guardHist == <<teardowns, seenSince>>
burstHist == <<burstStart, burstCommits>>
sketch == <<settings, count, relayStatus>>

vars == <<pc, clock, eeprom, ram, pin, start, staConnected, radio, session,
          http, persist, fallbackHeap, mqttOut, connectFailed,
          loadedValid, sketch, guardHist, burstHist>>

NoHttp == [req |-> NoReq, code |-> 0, body |-> ""]

\* the struct of the raw-socket sketch does not exist in the main firmware
NoSettings == <<>>

ApUp == "AP" \in wifiMode

InLoop == pc \in {"loop_web", "loop_mqtt", "loop_hb", "loop_guard"}

(***************************************************************************)
(* Persistence                                                             *)
(***************************************************************************)
\* ThrottleBlocks comparing now with a deadline last + STATE_WRITE_MIN, both
\* unsigned: a value with the top bit set is the larger one
ThrottleBlocks_Deadline(now, last) ==
    LET deadline == last + STATE_WRITE_MIN
    IN  IF (now >= 0) = (deadline >= 0) THEN now < deadline ELSE now >= 0

\* ThrottleBlocks with the comparison turned round
ThrottleBlocks_Reversed(now, last) == UGreater(now, last, STATE_WRITE_MIN)

\* the guard of saveRelayState: the call returns without writing
ThrottleBlocks(now, last) == ULess(now, last, STATE_WRITE_MIN)

\* saveRelayState that takes the timestamp but leaves the byte
saveRelayState_NoWrite(mem, last, s, now) ==
    IF ThrottleBlocks(now, last)
    THEN [mem |-> mem, last |-> last, outcome |-> "throttled"]
    ELSE [mem |-> mem, last |-> now, outcome |-> "committed"]

\* saveRelayState(s) at time now: buffer, timestamp and outcome
saveRelayState(mem, last, s, now) ==
    IF ThrottleBlocks(now, last)
    THEN [mem |-> mem, last |-> last, outcome |-> "throttled"]
    ELSE [mem |-> EWrite(mem, STATE_ADDR, IF s # 0 THEN 1 ELSE 0),
          last |-> now, outcome |-> "committed"]

\* applyRelay driving the pin active-low
applyRelay_ActiveLow(mem, last, s, now) ==
    LET r == IF s # 0 THEN 1 ELSE 0
        w == saveRelayState(mem, last, r, now)
    IN  [relay |-> r, pin |-> 1 - r, mem |-> w.mem, last |-> w.last,
         outcome |-> w.outcome]

\* applyRelay driving the pin only when the state is committed
applyRelay_PinOnCommit(mem, last, s, now) ==
    LET r == IF s # 0 THEN 1 ELSE 0
        w == saveRelayState(mem, last, r, now)
    IN  [relay |-> r, pin |-> IF w.outcome = "committed" THEN r ELSE 0,
         mem |-> w.mem, last |-> w.last, outcome |-> w.outcome]

\* applyRelay(s) at time now
applyRelay(mem, last, s, now) ==
    LET r == IF s # 0 THEN 1 ELSE 0
        w == saveRelayState(mem, last, r, now)
    IN  [relay |-> r, pin |-> r, mem |-> w.mem, last |-> w.last,
         outcome |-> w.outcome]

\* DefaultImage without the write of the empty secret
DefaultImage_SecretKept(mem, host, apf, relay) ==
    LET m1 == eWriteStr(mem, HOST_ADDR, host, HOST_LEN)
        m2 == eWriteStr(m1, SSID_ADDR, S_empty, SSID_LEN)
        m4 == EWrite(m2, APF_ADDR, IF apf THEN 1 ELSE 0)
        m5 == EWrite(m4, STATE_ADDR, IF relay # 0 THEN 1 ELSE 0)
    IN  EWrite(m5, MAGIC_ADDR, MAGIC_VAL)

\* the defaults loadConfig() writes when the sentinel does not match: the
\* values the globals hostnameLocal, apFallback and relayState hold at that
\* point, empty network name and secret, then the sentinel
DefaultImage(mem, host, apf, relay) ==
    LET m1 == eWriteStr(mem, HOST_ADDR, host, HOST_LEN)
        m2 == eWriteStr(m1, SSID_ADDR, S_empty, SSID_LEN)
        m3 == eWriteStr(m2, PASS_ADDR, S_empty, PASS_LEN)
        m4 == EWrite(m3, APF_ADDR, IF apf THEN 1 ELSE 0)
        m5 == EWrite(m4, STATE_ADDR, IF relay # 0 THEN 1 ELSE 0)
    IN  EWrite(m5, MAGIC_ADDR, MAGIC_VAL)

SentinelOk(mem) == mem[MAGIC_ADDR] = MAGIC_VAL

\* loadConfig that leaves relayState at its initialiser
loadConfig_RelayNotRead(mem, host, apf, relay) ==
    LET m == IF SentinelOk(mem) THEN mem
             ELSE DefaultImage(mem, host, apf, relay)
    IN  [mem |-> m,
         host |-> eReadStr(m, HOST_ADDR, HOST_LEN),
         ssid |-> eReadStr(m, SSID_ADDR, SSID_LEN),
         pass |-> eReadStr(m, PASS_ADDR, PASS_LEN),
         apf |-> (m[APF_ADDR] = 1),
         relay |-> relay]

\* loadConfig() with the globals host, apf, relay: the store after it and the
\* globals it sets
loadConfig(mem, host, apf, relay) ==
    LET m == IF SentinelOk(mem) THEN mem
             ELSE DefaultImage(mem, host, apf, relay)
    IN  [mem |-> m,
         host |-> eReadStr(m, HOST_ADDR, HOST_LEN),
         ssid |-> eReadStr(m, SSID_ADDR, SSID_LEN),
         pass |-> eReadStr(m, PASS_ADDR, PASS_LEN),
         apf |-> (m[APF_ADDR] = 1),
         relay |-> IF m[STATE_ADDR] = 1 THEN 1 ELSE 0]

\* saveConfigWiFi that also stores the relay as off
saveConfigWiFi_ResetsState(mem, ssid, pass, host) ==
    LET m1 == eWriteStr(mem, SSID_ADDR, ssid, SSID_LEN)
        m2 == eWriteStr(m1, PASS_ADDR, pass, PASS_LEN)
    IN  EWrite(eWriteStr(m2, HOST_ADDR, host, HOST_LEN), STATE_ADDR, 0)

\* saveConfigWiFi that switches the fallback on again
saveConfigWiFi_SetsFlag(mem, ssid, pass, host) ==
    LET m1 == eWriteStr(mem, SSID_ADDR, ssid, SSID_LEN)
        m2 == eWriteStr(m1, PASS_ADDR, pass, PASS_LEN)
    IN  EWrite(eWriteStr(m2, HOST_ADDR, host, HOST_LEN), APF_ADDR, 1)

\* saveConfigWiFi writing the secret with the capacity of the network name
saveConfigWiFi_ShortSecret(mem, ssid, pass, host) ==
    LET m1 == eWriteStr(mem, SSID_ADDR, ssid, SSID_LEN)
        m2 == eWriteStr(m1, PASS_ADDR, pass, SSID_LEN)
    IN  eWriteStr(m2, HOST_ADDR, host, HOST_LEN)

\* saveConfigWiFi(ssid, pass, host): the three fields written and committed
saveConfigWiFi(mem, ssid, pass, host) ==
    LET m1 == eWriteStr(mem, SSID_ADDR, ssid, SSID_LEN)
        m2 == eWriteStr(m1, PASS_ADDR, pass, PASS_LEN)
    IN  eWriteStr(m2, HOST_ADDR, host, HOST_LEN)

\* SaveRejected without the test of the network name
SaveRejected_Never(req) == FALSE

\* handleSave(): the request is refused
SaveRejected(req) == Len(req.ssid) = 0

\* handleSave(): the hostname handed to saveConfigWiFi
SaveHost(req, current) == IF Len(req.host) # 0 THEN req.host ELSE current

(***************************************************************************)
(* Radio (ESP8266WiFi calls made by the firmware)                          *)
(***************************************************************************)
\* WiFi.mode(m): the roles are exactly m; a station that is switched off
\* loses its association
WiFiMode(m, link) == [mode |-> m, link |-> link /\ "STA" \in m]

\* startAP that adds the access point to the station (WIFI_AP_STA)
startAP_KeepsStation(mode, link) ==
    LET w == WiFiMode(mode \cup {"AP"}, link)
    IN  [mode |-> w.mode, link |-> w.link]

\* startAP(): WiFi.mode(WIFI_AP), softAPConfig, softAP
startAP(mode, link) ==
    LET w == WiFiMode({"AP"}, link)
    IN  [mode |-> w.mode \cup {"AP"}, link |-> w.link]

\* WiFi.softAPdisconnect(true): the access-point role is switched off
softAPdisconnect(mode) == mode \ {"AP"}

\* HasCredentials accepting a network name of one character
HasCredentials_NonEmpty(ssid) == Len(ssid) > 0

\* tryStartSTA() / the test around it in setup()
HasCredentials(ssid) == Len(ssid) > 1

\* FallbackWanted taking a heap equal to the watermark as enough
FallbackWanted_AtWatermark(apf, h) == apf /\ h >= HEAP_HIGH

\* setup(): the fallback access point next to a connected station
FallbackWanted(apf, h) == apf /\ h > HEAP_HIGH

\* loop(): the low-heap guard
HeapGuardTrips(apf, h) == apf /\ h < HEAP_LOW

(***************************************************************************)
(* History of saveRelayState calls (observation only)                      *)
(***************************************************************************)
\* a burst is a run of calls all made less than STATE_WRITE_MIN after its first
BurstAfter(outcome, now) ==
    LET c == IF outcome = "committed" THEN 1 ELSE 0
    IN  IF outcome = "none" THEN <<burstStart, burstCommits>>
        ELSE IF burstStart = None \/ ~ULess(now, burstStart, STATE_WRITE_MIN)
        THEN <<now, c>>
        ELSE <<burstStart, Min(burstCommits + c, MaxCount)>>

(***************************************************************************)
(* Request surface                                                         *)
(***************************************************************************)
\* handleStatus with the two answers exchanged
handleStatus_Inverted(relay) == IF relay # 0 THEN "off" ELSE "on"

\* handleStatus(): the "state" member of the JSON body it sends
handleStatus(relay) == IF relay # 0 THEN "on" ELSE "off"

\* handleSave() goes on to ESP.restart()
Restarts(req) == req.kind = "save" /\ ~SaveRejected(req)

\* web.handleClient() with req waiting, at time clock: the handler of req
\* runs to completion.  Everything but pc, clock and the radio is set here.
HandleClient(req) ==
    /\ UNCHANGED <<apFallback, lastHeartbeat, session, loadedValid, sketch,
                   guardHist, start, staConnected>>
    /\ fallbackHeap' = None
    /\ mqttOut' = <<>>
    /\ UNCHANGED connectFailed
    /\ CASE req.kind \in {"on", "off"} ->
            LET a == applyRelay(eeprom, lastStateWrite,
                                IF req.kind = "on" THEN 1 ELSE 0, clock)
                b == BurstAfter(a.outcome, clock)
            IN  /\ relayState' = a.relay
                /\ pin' = a.pin
                /\ eeprom' = a.mem
                /\ lastStateWrite' = a.last
                /\ persist' = a.outcome
                /\ burstStart' = b[1]
                /\ burstCommits' = b[2]
                /\ http' = [req |-> req, code |-> 302, body |-> ""]
                /\ UNCHANGED <<hostnameLocal, storedSSID, storedPASS>>
         [] req.kind = "status" ->
                /\ http' = [req |-> req, code |-> 200,
                            body |-> handleStatus(relayState)]
                /\ persist' = "none"
                /\ UNCHANGED <<eeprom, ram, pin, burstHist>>
         [] req.kind = "save" /\ SaveRejected(req) ->
                /\ http' = [req |-> req, code |-> 400, body |-> "Missing SSID"]
                /\ persist' = "none"
                /\ UNCHANGED <<eeprom, ram, pin, burstHist>>
         [] req.kind = "save" /\ ~SaveRejected(req) ->
            LET m == saveConfigWiFi(eeprom, req.ssid, req.pass,
                                    SaveHost(req, hostnameLocal))
            IN  /\ eeprom' = m
                /\ storedSSID' = eReadStr(m, SSID_ADDR, SSID_LEN)
                /\ storedPASS' = eReadStr(m, PASS_ADDR, PASS_LEN)
                /\ hostnameLocal' = eReadStr(m, HOST_ADDR, HOST_LEN)
                /\ http' = [req |-> req, code |-> 200, body |-> "Saved"]
                /\ persist' = "none"
                /\ UNCHANGED <<relayState, lastStateWrite, pin, burstHist>>
         [] req.kind = "none" ->
                /\ http' = NoHttp
                /\ persist' = "none"
                /\ UNCHANGED <<eeprom, ram, pin, burstHist>>

(***************************************************************************)
(* Boot                                                                    *)
(***************************************************************************)
\* store contents a device can power up with before the firmware has ever
\* written it: a sentinel other than MAGIC_VAL, the configuration area
\* erased, zeroed or filled with text, the rest erased
BlankStores ==
    { [a \in 0..(EEPROM_SIZE - 1) |->
          IF a = MAGIC_ADDR THEN m ELSE IF a <= STATE_ADDR THEN f ELSE 255] :
        m \in {255, 0}, f \in {255, 0, 65} }

Init ==
    /\ pc = "reset"
    /\ clock = 0
    /\ eeprom \in BlankStores
    /\ hostnameLocal = S_remoteswitch
    /\ storedSSID = S_empty
    /\ storedPASS = S_empty
    /\ apFallback = TRUE
    /\ relayState = 0
    /\ lastStateWrite = 0
    /\ lastHeartbeat = 0
    /\ pin = 0
    /\ start = 0
    /\ staConnected = FALSE
    /\ wifiMode = {}
    /\ staLink = FALSE
    /\ mqttConn = FALSE
    /\ statusPub = "none"
    /\ http = NoHttp
    /\ persist = "none"
    /\ fallbackHeap = None
    /\ mqttOut = <<>>
    /\ connectFailed = FALSE
    /\ loadedValid = FALSE
    /\ settings = NoSettings
    /\ count = 0
    /\ relayStatus = FALSE
    /\ teardowns = 0
    /\ seenSince = {}
    /\ burstStart = None
    /\ burstCommits = 0

\* power-up or ESP.restart(): the globals get their initialisers, the clock
\* restarts, the radio and the socket are down; the store and the broker keep
\* what they hold
Reset ==
    /\ pc = "reset"
    /\ pc' = "setup"
    /\ clock' = 0
    /\ hostnameLocal' = S_remoteswitch
    /\ storedSSID' = S_empty
    /\ storedPASS' = S_empty
    /\ apFallback' = TRUE
    /\ relayState' = 0
    /\ lastStateWrite' = 0
    /\ lastHeartbeat' = 0
    /\ pin' = 0
    /\ start' = 0
    /\ staConnected' = FALSE
    /\ wifiMode' = {}
    /\ staLink' = FALSE
    /\ mqttConn' = FALSE
    /\ http' = NoHttp
    /\ persist' = "none"
    /\ fallbackHeap' = None
    /\ mqttOut' = <<>>
    /\ connectFailed' = FALSE
    /\ loadedValid' = FALSE
    /\ UNCHANGED sketch
    /\ teardowns' = 0
    /\ seenSince' = {}
    /\ burstStart' = None
    /\ burstCommits' = 0
    /\ UNCHANGED <<eeprom, statusPub>>

\* setup() up to the station wait: pin LOW, loadConfig(), applyRelay(),
\* web.begin(), and tryStartSTA() when a network name is stored
SetupLoad ==
    /\ pc = "setup"
    /\ LET c == loadConfig(eeprom, hostnameLocal, apFallback, relayState)
           a == applyRelay(c.mem, lastStateWrite, c.relay, clock)
           b == BurstAfter(a.outcome, clock)
       IN  /\ loadedValid' = SentinelOk(eeprom)
           /\ hostnameLocal' = c.host
           /\ storedSSID' = c.ssid
           /\ storedPASS' = c.pass
           /\ apFallback' = c.apf
           /\ relayState' = a.relay
           /\ pin' = a.pin
           /\ eeprom' = a.mem
           /\ lastStateWrite' = a.last
           /\ persist' = a.outcome
           /\ burstStart' = b[1]
           /\ burstCommits' = b[2]
           /\ IF HasCredentials(c.ssid)
              THEN /\ wifiMode' = WiFiMode({"STA"}, staLink).mode
                   /\ staLink' = WiFiMode({"STA"}, staLink).link
                   /\ start' = clock
                   /\ pc' = "sta_wait"
              ELSE /\ UNCHANGED <<radio, start>>
                   /\ pc' = "setup_end"
    /\ http' = NoHttp
    /\ fallbackHeap' = None
    /\ mqttOut' = <<>>
    /\ UNCHANGED connectFailed
    /\ UNCHANGED <<clock, lastHeartbeat, staConnected, session, guardHist,
                   sketch>>

\* StaWaitOpen without the bound on the wait
StaWaitOpen_Forever(now, begin) == TRUE

\* the condition of the station wait loop of setup()
StaWaitOpen(now, begin) == ULess(now, begin, STA_TIMEOUT)

\* StaPoll whose loop body is the delay alone
StaPoll_NoService(req, d) ==
    /\ pc = "sta_wait"
    /\ IF ~StaWaitOpen(clock, start)
       THEN /\ pc' = "setup_end"
            /\ UNCHANGED <<clock, staConnected>>
       ELSE IF staLink
       THEN /\ staConnected' = TRUE
            /\ pc' = "setup_end"
            /\ UNCHANGED clock
       ELSE /\ d >= STA_POLL_DELAY
            /\ clock + d <= MaxClock
            /\ clock' = clock + d
            /\ pc' = "sta_wait"
            /\ UNCHANGED staConnected
    /\ http' = NoHttp
    /\ persist' = "none"
    /\ fallbackHeap' = None
    /\ mqttOut' = <<>>
    /\ UNCHANGED connectFailed
    /\ UNCHANGED <<eeprom, ram, pin, start, radio, session, loadedValid, sketch,
                   guardHist, burstHist>>

\* one evaluation of the station wait loop of setup()
StaPoll(req, d) ==
    /\ pc = "sta_wait"
    /\ IF ~StaWaitOpen(clock, start)
       THEN \* the window is over
            /\ pc' = "setup_end"
            /\ http' = NoHttp
            /\ persist' = "none"
            /\ fallbackHeap' = None
            /\ mqttOut' = <<>>
            /\ UNCHANGED connectFailed
            /\ UNCHANGED <<clock, eeprom, ram, pin, start, staConnected, radio,
                           session, loadedValid, sketch, guardHist, burstHist>>
       ELSE IF staLink
       THEN \* WL_CONNECTED: break
            /\ staConnected' = TRUE
            /\ pc' = "setup_end"
            /\ http' = NoHttp
            /\ persist' = "none"
            /\ fallbackHeap' = None
            /\ mqttOut' = <<>>
            /\ UNCHANGED connectFailed
            /\ UNCHANGED <<clock, eeprom, ram, pin, start, radio,
                           session, loadedValid, sketch, guardHist, burstHist>>
       ELSE \* web.handleClient(); delay(200)
            /\ HandleClient(req)
            /\ UNCHANGED radio
            /\ IF Restarts(req)
               THEN pc' = "reset" /\ UNCHANGED clock
               ELSE /\ d >= STA_POLL_DELAY
                    /\ clock + d <= MaxClock
                    /\ clock' = clock + d
                    /\ pc' = "sta_wait"

\* the end of setup(): access point only, or mDNS and the optional fallback
\* access point; h is the free heap at that moment, which is read only when
\* the station is connected and the flag is set
SetupEnd(h) ==
    /\ pc = "setup_end"
    /\ pc' = "loop_web"
    /\ IF ~staConnected
       THEN /\ wifiMode' = startAP(wifiMode, staLink).mode
            /\ staLink' = startAP(wifiMode, staLink).link
       ELSE IF FallbackWanted(apFallback, h)
       THEN /\ wifiMode' = startAP(wifiMode, staLink).mode
            /\ staLink' = startAP(wifiMode, staLink).link
       ELSE UNCHANGED radio
    /\ fallbackHeap' = IF staConnected /\ apFallback THEN h ELSE None
    /\ mqttOut' = <<>>
    /\ UNCHANGED connectFailed
    /\ http' = NoHttp
    /\ persist' = "none"
    /\ UNCHANGED <<clock, eeprom, ram, pin, start, staConnected, session,
                   loadedValid, sketch, guardHist, burstHist>>

(***************************************************************************)
(* loop()                                                                  *)
(***************************************************************************)
\* web.handleClient()
LoopWeb(req) ==
    /\ pc = "loop_web"
    /\ HandleClient(req)
    /\ pc' = IF Restarts(req) THEN "reset" ELSE "loop_mqtt"
    /\ UNCHANGED <<clock, radio>>

\* CommandOf without the branch for "off"
CommandOf_OnOnly(msg) ==
    IF ~msg.parsed THEN None
    ELSE IF ~msg.switchIsInt \/ ~msg.commandIsStr THEN None
    ELSE IF msg.switch # 1 THEN None
    ELSE IF msg.command = "on" THEN 1
    ELSE None

\* CommandOf without the test of the target
CommandOf_AnyTarget(msg) ==
    IF ~msg.parsed THEN None
    ELSE IF ~msg.switchIsInt \/ ~msg.commandIsStr THEN None
    ELSE IF msg.command = "on" THEN 1
    ELSE IF msg.command = "off" THEN 0
    ELSE None

\* mqttCallback(): the relay value the payload asks for, None when dropped
CommandOf(msg) ==
    IF ~msg.parsed THEN None
    ELSE IF ~msg.switchIsInt \/ ~msg.commandIsStr THEN None
    ELSE IF msg.switch # 1 THEN None
    ELSE IF msg.command = "on" THEN 1
    ELSE IF msg.command = "off" THEN 0
    ELSE None

\* one packet the firmware sends to the broker
MqttOp(op, topic, payload, retain) ==
    [op |-> op, topic |-> topic, payload |-> payload, retain |-> retain]

\* mqtt.connect(id, nullptr, nullptr, LWT_TOPIC, 1, true, id + " lost")
ConnectOp == MqttOp("connect", "home/switch/alert", "lost", TRUE)

\* mqtt.subscribe(SUB_TOPIC)
SubscribeOp == MqttOp("subscribe", "home/switch/control", "", FALSE)

\* mqtt.publish(PUB_TOPIC, {"switch":1,"state":...,"success":true}, retained)
StatusOp(relay) ==
    MqttOp("publish", "home/switch/status",
           IF relay # 0 THEN "on" ELSE "off", TRUE)

\* mqtt.publish(HB_TOPIC, {"id":...,"uptime":...}, retained)
HeartbeatOp == MqttOp("publish", "home/switch/heartbeat", "uptime", TRUE)

\* mqttReconnect without the subscription
mqttReconnect_NoSubscribe(ok, relay) ==
    IF ok THEN <<ConnectOp, StatusOp(relay)>> ELSE <<ConnectOp>>

\* mqttReconnect() with the session down: what it sends; ok: the broker
\* accepts the connection
mqttReconnect(ok, relay) ==
    IF ok THEN <<ConnectOp, SubscribeOp, StatusOp(relay)>> ELSE <<ConnectOp>>

\* the MQTT block of loop(): with the station link up, mqttReconnect() when
\* the session is down (ok: the broker accepts the connection), else
\* mqtt.loop() delivering msg to mqttCallback() (NoMsg: nothing waiting)
LoopMqtt(ok, msg) ==
    /\ pc = "loop_mqtt"
    /\ pc' = "loop_hb"
    /\ http' = NoHttp
    /\ fallbackHeap' = None
    /\ IF ~staLink
       THEN /\ persist' = "none"
            /\ mqttOut' = <<>>
            /\ connectFailed' = FALSE
            /\ UNCHANGED <<eeprom, ram, pin, session, burstHist>>
       ELSE IF ~mqttConn
       THEN \* mqttReconnect(): connect, subscribe, publish retained status
            /\ mqttConn' = ok
            /\ statusPub' = IF ok THEN StatusOp(relayState).payload
                            ELSE statusPub
            /\ persist' = "none"
            /\ mqttOut' = mqttReconnect(ok, relayState)
            /\ connectFailed' = ~ok
            /\ UNCHANGED <<eeprom, ram, pin, burstHist>>
       ELSE \* mqtt.loop()
            /\ mqttOut' = <<>>
            /\ connectFailed' = FALSE
            /\ IF msg = NoMsg \/ CommandOf(msg) = None
               THEN /\ persist' = "none"
                    /\ UNCHANGED <<eeprom, ram, pin, session, burstHist>>
               ELSE LET a == applyRelay(eeprom, lastStateWrite, CommandOf(msg),
                                        clock)
                        b == BurstAfter(a.outcome, clock)
                    IN  /\ relayState' = a.relay
                        /\ pin' = a.pin
                        /\ eeprom' = a.mem
                        /\ lastStateWrite' = a.last
                        /\ persist' = a.outcome
                        /\ burstStart' = b[1]
                        /\ burstCommits' = b[2]
                        /\ UNCHANGED <<hostnameLocal, storedSSID, storedPASS,
                                       apFallback, lastHeartbeat, session>>
    /\ UNCHANGED <<clock, start, staConnected, radio, loadedValid, sketch, guardHist>>

\* HeartbeatDue without the interval
HeartbeatDue_NoWait(now, last) == TRUE

\* the heartbeat block of loop()
HeartbeatDue(now, last) == UGreater(now, last, HB_INTERVAL)

LoopHeartbeat ==
    /\ pc = "loop_hb"
    /\ pc' = "loop_guard"
    /\ lastHeartbeat' = IF HeartbeatDue(clock, lastHeartbeat) THEN clock
                        ELSE lastHeartbeat
    /\ http' = NoHttp
    /\ persist' = "none"
    /\ fallbackHeap' = None
    /\ mqttOut' = IF HeartbeatDue(clock, lastHeartbeat) /\ mqttConn
                  THEN <<HeartbeatOp>> ELSE <<>>
    /\ UNCHANGED connectFailed
    /\ UNCHANGED <<clock, eeprom, hostnameLocal, storedSSID, storedPASS,
                   apFallback, relayState, lastStateWrite, pin, start,
                   staConnected, radio, session, loadedValid, sketch, guardHist,
                   burstHist>>

\* where a free-heap value lies relative to the two watermarks
Band(h) == IF h < HEAP_LOW THEN "low" ELSE IF h > HEAP_HIGH THEN "high" ELSE "mid"

\* HeapGuard that clears the validity sentinel next to the flag
HeapGuard_ClearsSentinel(apf, mem, mode, h) ==
    IF HeapGuardTrips(apf, h)
    THEN [apf |-> FALSE, mem |-> EWrite(EWrite(mem, APF_ADDR, 0), MAGIC_ADDR, 0),
          mode |-> softAPdisconnect(mode), tripped |-> TRUE]
    ELSE [apf |-> apf, mem |-> mem, mode |-> mode, tripped |-> FALSE]

\* HeapGuard without the softAPdisconnect() call
HeapGuard_KeepsAP(apf, mem, mode, h) ==
    IF HeapGuardTrips(apf, h)
    THEN [apf |-> FALSE, mem |-> EWrite(mem, APF_ADDR, 0),
          mode |-> mode, tripped |-> TRUE]
    ELSE [apf |-> apf, mem |-> mem, mode |-> mode, tripped |-> FALSE]

\* HeapGuard without the EEPROM.write() of the cleared flag
HeapGuard_NotPersisted(apf, mem, mode, h) ==
    IF HeapGuardTrips(apf, h)
    THEN [apf |-> FALSE, mem |-> mem,
          mode |-> softAPdisconnect(mode), tripped |-> TRUE]
    ELSE [apf |-> apf, mem |-> mem, mode |-> mode, tripped |-> FALSE]

\* HeapGuard that leaves apFallback set
HeapGuard_FlagStays(apf, mem, mode, h) ==
    IF HeapGuardTrips(apf, h)
    THEN [apf |-> apf, mem |-> EWrite(mem, APF_ADDR, 0),
          mode |-> softAPdisconnect(mode), tripped |-> TRUE]
    ELSE [apf |-> apf, mem |-> mem, mode |-> mode, tripped |-> FALSE]

\* the low-heap block of loop(): flag, store and radio after it
HeapGuard(apf, mem, mode, h) ==
    IF HeapGuardTrips(apf, h)
    THEN [apf |-> FALSE, mem |-> EWrite(mem, APF_ADDR, 0),
          mode |-> softAPdisconnect(mode), tripped |-> TRUE]
    ELSE [apf |-> apf, mem |-> mem, mode |-> mode, tripped |-> FALSE]

\* the low-heap block and the delay(2) that ends the pass; h is the free
\* heap during the pass, d the time the pass took
LoopGuard(h, d) ==
    /\ pc = "loop_guard"
    /\ d >= LOOP_DELAY
    /\ clock + d <= MaxClock
    /\ LET g == HeapGuard(apFallback, eeprom, wifiMode, h)
       IN  /\ apFallback' = g.apf
           /\ eeprom' = g.mem
           /\ wifiMode' = g.mode
           /\ teardowns' = IF g.tripped THEN Min(teardowns + 1, MaxCount)
                           ELSE teardowns
           /\ seenSince' = IF g.tripped THEN {}
                           ELSE IF teardowns > 0 THEN seenSince \cup {Band(h)}
                           ELSE seenSince
    /\ clock' = clock + d
    /\ pc' = "loop_web"
    /\ http' = NoHttp
    /\ persist' = "none"
    /\ fallbackHeap' = None
    /\ mqttOut' = <<>>
    /\ UNCHANGED connectFailed
    /\ UNCHANGED <<hostnameLocal, storedSSID, storedPASS, relayState,
                   lastStateWrite, lastHeartbeat, pin, start, staConnected,
                   staLink, session, loadedValid, sketch, burstHist>>

(***************************************************************************)
(* Environment                                                             *)
(***************************************************************************)
Observed == <<http, persist, fallbackHeap, mqttOut, connectFailed>>

\* the station associates with the network it was told to join
LinkUp ==
    /\ pc \in {"sta_wait", "setup_end"} \/ InLoop
    /\ "STA" \in wifiMode
    /\ ~staLink
    /\ staLink' = TRUE
    /\ UNCHANGED <<pc, clock, eeprom, ram, pin, start, staConnected, wifiMode,
                   session, Observed, loadedValid, sketch, guardHist, burstHist>>

\* the association is lost
LinkDown ==
    /\ staLink
    /\ staLink' = FALSE
    /\ UNCHANGED <<pc, clock, eeprom, ram, pin, start, staConnected, wifiMode,
                   session, Observed, loadedValid, sketch, guardHist, burstHist>>

\* the TCP connection to the broker closes
SocketClosed ==
    /\ mqttConn
    /\ mqttConn' = FALSE
    /\ UNCHANGED <<pc, clock, eeprom, ram, pin, start, staConnected, radio,
                   statusPub, Observed, loadedValid, sketch, guardHist, burstHist>>

(***************************************************************************)
(* Specification                                                           *)
(***************************************************************************)
Next ==
    \/ Reset
    \/ SetupLoad
    \/ \E req \in Requests, d \in Durations : StaPoll(req, d)
    \/ \E h \in HeapSamples : SetupEnd(h)
    \/ \E req \in Requests : LoopWeb(req)
    \/ \E ok \in BOOLEAN, msg \in Messages \cup {NoMsg} : LoopMqtt(ok, msg)
    \/ LoopHeartbeat
    \/ \E h \in HeapSamples, d \in Durations : LoopGuard(h, d)
    \/ LinkUp
    \/ LinkDown
    \/ SocketClosed

Spec == Init /\ [][Next]_vars

\* setup() runs straight through: the station wait loop is evaluated again
\* as long as setup() is in it
FairSpec ==
    Spec /\ WF_vars(\E req \in Requests, d \in Durations : StaPoll(req, d))

(***************************************************************************)
(* A provisioned device on a network that accepts it, with a reachable     *)
(* broker and nobody talking to it                                         *)
(***************************************************************************)
\* stores left by an earlier handleSave(): sentinel, hostname, a network name
\* and secret, last relay state 0, and either value of the fallback flag
ProvisionedStores ==
    { LET m0 == [a \in 0..(EEPROM_SIZE - 1) |-> 255]
          m1 == DefaultImage(m0, S_remoteswitch, f, 0)
      IN  saveConfigWiFi(m1, S_net, S_pw, S_remoteswitch) : f \in BOOLEAN }

InitB ==
    /\ pc = "reset"
    /\ clock = 0
    /\ eeprom \in ProvisionedStores
    /\ hostnameLocal = S_remoteswitch
    /\ storedSSID = S_empty
    /\ storedPASS = S_empty
    /\ apFallback = TRUE
    /\ relayState = 0
    /\ lastStateWrite = 0
    /\ lastHeartbeat = 0
    /\ pin = 0
    /\ start = 0
    /\ staConnected = FALSE
    /\ wifiMode = {}
    /\ staLink = FALSE
    /\ mqttConn = FALSE
    /\ statusPub = "none"
    /\ http = NoHttp
    /\ persist = "none"
    /\ fallbackHeap = None
    /\ mqttOut = <<>>
    /\ connectFailed = FALSE
    /\ loadedValid = FALSE
    /\ settings = NoSettings
    /\ count = 0
    /\ relayStatus = FALSE
    /\ teardowns = 0
    /\ seenSince = {}
    /\ burstStart = None
    /\ burstCommits = 0

\* an iteration of the station wait that does not use up the window while
\* the station is still not associated: the network accepts within it
StaPollAccepted(d) ==
    /\ StaPoll(NoReq, d)
    /\ pc' = "sta_wait" => ULess(clock', start, STA_TIMEOUT)

NextB ==
    \/ Reset
    \/ SetupLoad
    \/ \E d \in Durations : StaPollAccepted(d)
    \/ \E h \in HeapSamples : SetupEnd(h)
    \/ LoopWeb(NoReq)
    \/ LoopMqtt(TRUE, NoMsg)
    \/ LoopHeartbeat
    \/ \E h \in HeapSamples, d \in Durations : LoopGuard(h, d)
    \/ LinkUp

\* setup() and loop() keep running, and the network answers the station
SpecB == InitB /\ [][NextB]_vars /\ WF_vars(NextB)

(***************************************************************************)
(* A provisioned device that has been in loop() for 2^32 ms, the station   *)
(* connected without access point: millis() has just wrapped to 0, the     *)
(* heartbeat timer was last reset HeartbeatAge before that, and the relay  *)
(* state has not been committed since boot                                 *)
(***************************************************************************)
HeartbeatAge == 20000

InitM ==
    /\ pc = "loop_web"
    /\ clock = 0
    /\ eeprom \in ProvisionedStores
    /\ hostnameLocal = S_remoteswitch
    /\ storedSSID = S_net
    /\ storedPASS = S_pw
    /\ apFallback = (eeprom[APF_ADDR] = 1)
    /\ relayState = 0
    /\ lastStateWrite = 0
    /\ lastHeartbeat = 0 - HeartbeatAge
    /\ pin = 0
    /\ start = 0
    /\ staConnected = TRUE
    /\ wifiMode = {"STA"}
    /\ staLink = TRUE
    /\ mqttConn = FALSE
    /\ statusPub = "none"
    /\ http = NoHttp
    /\ persist = "none"
    /\ fallbackHeap = None
    /\ mqttOut = <<>>
    /\ connectFailed = FALSE
    /\ loadedValid = TRUE
    /\ settings = NoSettings
    /\ count = 0
    /\ relayStatus = FALSE
    /\ teardowns = 0
    /\ seenSince = {}
    /\ burstStart = None
    /\ burstCommits = 0

\* loop() with nobody on the local surface; the broker, the network and the
\* socket do as they please
NextM ==
    \/ LoopWeb(NoReq)
    \/ \E ok \in BOOLEAN, msg \in Messages \cup {NoMsg} : LoopMqtt(ok, msg)
    \/ LoopHeartbeat
    \/ \E h \in HeapSamples, d \in Durations : LoopGuard(h, d)
    \/ LinkUp
    \/ LinkDown
    \/ SocketClosed

SpecM == InitM /\ [][NextM]_vars

(***************************************************************************)
(* The same device shortly before millis() wraps: the clock is WrapLead    *)
(* short of 2^32, a value held as a negative integer, and the last relay   *)
(* commit was made now or up to two quanta earlier.  Requests switch the   *)
(* relay while the clock runs through 0.                                   *)
(***************************************************************************)
WrapLead == 3 * Quantum

RelayRequests ==
    { NoReq,
      Req("on", S_empty, S_empty, S_empty),
      Req("off", S_empty, S_empty, S_empty) }

InitW ==
    /\ pc = "loop_web"
    /\ clock = 0 - WrapLead
    /\ eeprom \in ProvisionedStores
    /\ hostnameLocal = S_remoteswitch
    /\ storedSSID = S_net
    /\ storedPASS = S_pw
    /\ apFallback = (eeprom[APF_ADDR] = 1)
    /\ relayState = 0
    /\ lastStateWrite \in {clock - k * Quantum : k \in 0..2}
    /\ lastHeartbeat = clock
    /\ pin = 0
    /\ start = 0
    /\ staConnected = TRUE
    /\ wifiMode = {"STA"}
    /\ staLink = TRUE
    /\ mqttConn = FALSE
    /\ statusPub = "none"
    /\ http = NoHttp
    /\ persist = "none"
    /\ fallbackHeap = None
    /\ mqttOut = <<>>
    /\ connectFailed = FALSE
    /\ loadedValid = TRUE
    /\ settings = NoSettings
    /\ count = 0
    /\ relayStatus = FALSE
    /\ teardowns = 0
    /\ seenSince = {}
    /\ burstStart = None
    /\ burstCommits = 0

NextW ==
    \/ \E req \in RelayRequests : LoopWeb(req)
    \/ \E ok \in BOOLEAN, msg \in Messages \cup {NoMsg} : LoopMqtt(ok, msg)
    \/ LoopHeartbeat
    \/ \E h \in HeapSamples, d \in Durations : LoopGuard(h, d)

SpecW == InitW /\ [][NextW]_vars

(***************************************************************************)
(* The raw-socket sketch (src/unnamed/part_000)                            *)
(***************************************************************************)
\* struct Config: offset and size of each member; every member is a char
\* array, so the struct has no padding
Config ==
    [ ssid      |-> [off |-> 0,   size |-> 41],
      password  |-> [off |-> 41,  size |-> 31],
      ip        |-> [off |-> 72,  size |-> 16],
      subnet    |-> [off |-> 88,  size |-> 16],
      defaultgw |-> [off |-> 104, size |-> 16],
      dns       |-> [off |-> 120, size |-> 16],
      ipType    |-> [off |-> 136, size |-> 2],
      powerOn   |-> [off |-> 138, size |-> 2],
      mDNS_name |-> [off |-> 140, size |-> 21] ]

\* sizeof(Config)
ConfigSize == 161

\* the sketch's SSID_ADDR, where the whole struct is kept
ConfigAddr == 0

\* startWiFiClient(): polls of WiFi.status() before it gives up
MaxPolls == 30

S_YourSSID == <<89, 111, 117, 114, 83, 83, 73, 68>>
S_YourPassword == <<89, 111, 117, 114, 80, 97, 115, 115, 119, 111, 114, 100>>
S_1 == <<49>>
S_2 == <<50>>
S_myrelaycard == <<109, 121, 114, 101, 108, 97, 121, 99, 97, 114, 100>>

\* EEPROM.get(SSID_ADDR, settings)
EepromGet(mem) == [i \in 0..(ConfigSize - 1) |-> mem[ConfigAddr + i]]

\* EEPROM.put(SSID_ADDR, settings); EEPROM.commit()
EepromPut(mem, img) ==
    [a \in DOMAIN mem |->
        IF a >= ConfigAddr /\ a < ConfigAddr + ConfigSize
        THEN img[a - ConfigAddr] ELSE mem[a]]

\* strncpy(member, s, n): n bytes, the string then NUL padding, and no NUL
\* when the string has n characters or more
strncpy(img, member, s, n) ==
    [i \in DOMAIN img |->
        IF i >= member.off /\ i < member.off + n
        THEN (IF i - member.off < Len(s) THEN s[i - member.off + 1] ELSE 0)
        ELSE img[i]]

\* readValuesFromEeprom(): the five strncpy calls of the defaults
Defaults(img) ==
    LET d1 == strncpy(img, Config.ssid, S_YourSSID, 40)
        d2 == strncpy(d1, Config.password, S_YourPassword, 30)
        d3 == strncpy(d2, Config.ipType, S_2, 1)
        d4 == strncpy(d3, Config.powerOn, S_2, 1)
    IN  strncpy(d4, Config.mDNS_name, S_myrelaycard, 20)

\* settings.mDNS_name[0] == 0xFF (char is unsigned on the ESP8266)
Uninitialized(img) == img[Config.mDNS_name.off] = 255

\* readValuesFromEeprom(), and saveValuesToEeprom() which it calls for the
\* defaults and which reads back through it: store and struct afterwards
RECURSIVE readValuesFromEeprom(_)
readValuesFromEeprom(mem) ==
    LET got == EepromGet(mem)
    IN  IF Uninitialized(got)
        THEN readValuesFromEeprom(EepromPut(mem, Defaults(got)))
        ELSE [mem |-> mem, settings |-> got]

saveValuesToEeprom(mem, img) == readValuesFromEeprom(EepromPut(mem, img))

\* a GET the sketch answers: /ON, /OFF, or /save? with its parameters
RawReq(k, s, p, t, o, m) ==
    [kind |-> k, ssid |-> s, password |-> p, ipType |-> t, powerOn |-> o,
     mdns |-> m]

RawRequests ==
    { RawReq("none", S_empty, S_empty, S_empty, S_empty, S_empty),
      RawReq("on", S_empty, S_empty, S_empty, S_empty, S_empty),
      RawReq("off", S_empty, S_empty, S_empty, S_empty, S_empty),
      RawReq("save", S_net, S_pw, S_2, S_1, S_dev) }

\* saveSettings(): every member copied from its parameter (the address
\* parameters are left out of the requests and come back empty) and
\* terminated
saveSettings(img, req) ==
    LET Set(i, member, s, n) ==
            [strncpy(i, member, s, n) EXCEPT ![member.off + n] = 0]
        s1 == Set(img, Config.ssid, req.ssid, 40)
        s2 == Set(s1, Config.password, req.password, 30)
        s3 == Set(s2, Config.ipType, req.ipType, 1)
        s4 == Set(s3, Config.ip, S_empty, 15)
        s5 == Set(s4, Config.subnet, S_empty, 15)
        s6 == Set(s5, Config.defaultgw, S_empty, 15)
        s7 == Set(s6, Config.dns, S_empty, 15)
        s8 == Set(s7, Config.mDNS_name, req.mdns, 20)
    IN  Set(s8, Config.powerOn, req.powerOn, 1)

\* strcmp(settings.powerOn, "1") == 0
PowerOnSet(img) ==
    /\ img[Config.powerOn.off] = 49
    /\ img[Config.powerOn.off + 1] = 0

\* startWifiAccessPoint that leaves the access point as the only role
startWifiAccessPoint_APOnly(mode) == {"AP"}

\* startWifiAccessPoint(): WiFi.softAP() switches the access-point role on
\* next to the roles already enabled
startWifiAccessPoint(mode) == mode \cup {"AP"}

\* what the main firmware's variables hold while the sketch runs
MainIdle ==
    UNCHANGED <<clock, ram, start, staConnected, session, http, persist,
                fallbackHeap, mqttOut, connectFailed, loadedValid, guardHist,
                burstHist>>

SketchPcs == {"sk_setup", "sk_boot_wait", "sk_loop", "sk_retry_wait",
              "sk_serve"}

\* power-up or ESP.restart(): the globals are zeroed, the store and the
\* radio mode kept by the SDK survive
SketchReset ==
    /\ pc = "sk_reset"
    /\ pc' = "sk_setup"
    /\ settings' = [i \in 0..(ConfigSize - 1) |-> 0]
    /\ count' = 0
    /\ relayStatus' = FALSE
    /\ staLink' = FALSE
    /\ UNCHANGED <<eeprom, pin, wifiMode>>
    /\ MainIdle

\* setup() up to the wait of startWiFiClient(): relay off,
\* readValuesFromEeprom(), relay on if powerOn says so, scanWiFi(),
\* WiFi.mode(WIFI_STA), WiFi.begin()
SketchSetup ==
    /\ pc = "sk_setup"
    /\ LET r == readValuesFromEeprom(eeprom)
       IN  /\ eeprom' = r.mem
           /\ settings' = r.settings
           /\ relayStatus' = PowerOnSet(r.settings)
           /\ pin' = IF PowerOnSet(r.settings) THEN 0 ELSE 1
    /\ wifiMode' = WiFiMode({"STA"}, staLink).mode
    /\ staLink' = WiFiMode({"STA"}, staLink).link
    /\ count' = 0
    /\ pc' = "sk_boot_wait"
    /\ MainIdle

\* the wait of startWiFiClient() and what its caller does with the result:
\* setup() starts the access point when it failed, loop() drops the result
startWiFiClientWait ==
    /\ pc \in {"sk_boot_wait", "sk_retry_wait"}
    /\ IF ~staLink /\ count < MaxPolls
       THEN \* delay(500); count++
            /\ count' = count + 1
            /\ UNCHANGED <<pc, wifiMode>>
       ELSE /\ pc' = IF pc = "sk_boot_wait" THEN "sk_loop" ELSE "sk_serve"
            /\ wifiMode' = IF ~staLink /\ pc = "sk_boot_wait"
                           THEN startWifiAccessPoint(wifiMode)
                           ELSE wifiMode
            /\ UNCHANGED count
    /\ UNCHANGED <<eeprom, pin, staLink, settings, relayStatus>>
    /\ MainIdle

\* the head of loop(): startWiFiClient() again when the access point is the
\* only role and the station is not connected
SketchLoop ==
    /\ pc = "sk_loop"
    /\ IF wifiMode = {"AP"} /\ ~staLink
       THEN /\ wifiMode' = WiFiMode({"STA"}, staLink).mode
            /\ staLink' = WiFiMode({"STA"}, staLink).link
            /\ count' = 0
            /\ pc' = "sk_retry_wait"
       ELSE /\ pc' = "sk_serve"
            /\ UNCHANGED <<wifiMode, staLink, count>>
    /\ UNCHANGED <<eeprom, pin, settings, relayStatus>>
    /\ MainIdle

\* the rest of loop(): handleClient() / answerRequest() for the request
\* waiting, if any
answerRequest(req) ==
    /\ pc = "sk_serve"
    /\ CASE req.kind = "on" ->
                /\ pin' = 0
                /\ relayStatus' = TRUE
                /\ pc' = "sk_loop"
                /\ UNCHANGED <<eeprom, settings>>
         [] req.kind = "off" ->
                /\ pin' = 1
                /\ relayStatus' = FALSE
                /\ pc' = "sk_loop"
                /\ UNCHANGED <<eeprom, settings>>
         [] req.kind = "save" ->
                LET r == saveValuesToEeprom(eeprom, saveSettings(settings, req))
                IN  /\ eeprom' = r.mem
                    /\ settings' = r.settings
                    /\ pc' = "sk_reset"
                    /\ UNCHANGED <<pin, relayStatus>>
         [] req.kind = "none" ->
                /\ pc' = "sk_loop"
                /\ UNCHANGED <<eeprom, pin, settings, relayStatus>>
    /\ UNCHANGED <<wifiMode, staLink, count>>
    /\ MainIdle

\* the network answers the station
SketchLinkUp ==
    /\ pc \in SketchPcs \ {"sk_setup"}
    /\ "STA" \in wifiMode
    /\ ~staLink
    /\ staLink' = TRUE
    /\ UNCHANGED <<pc, eeprom, pin, wifiMode, sketch>>
    /\ MainIdle

\* an erased store, and one another program has filled with zeroes
SketchStores ==
    {[a \in 0..(EEPROM_SIZE - 1) |-> b] : b \in {255, 0}}

InitR ==
    /\ pc = "sk_reset"
    /\ clock = 0
    /\ eeprom \in SketchStores
    /\ hostnameLocal = S_remoteswitch
    /\ storedSSID = S_empty
    /\ storedPASS = S_empty
    /\ apFallback = TRUE
    /\ relayState = 0
    /\ lastStateWrite = 0
    /\ lastHeartbeat = 0
    /\ pin = 1
    /\ start = 0
    /\ staConnected = FALSE
    /\ wifiMode = {}
    /\ staLink = FALSE
    /\ mqttConn = FALSE
    /\ statusPub = "none"
    /\ http = NoHttp
    /\ persist = "none"
    /\ fallbackHeap = None
    /\ mqttOut = <<>>
    /\ connectFailed = FALSE
    /\ loadedValid = FALSE
    /\ settings = [i \in 0..(ConfigSize - 1) |-> 0]
    /\ count = 0
    /\ relayStatus = FALSE
    /\ teardowns = 0
    /\ seenSince = {}
    /\ burstStart = None
    /\ burstCommits = 0

NextR ==
    \/ SketchReset
    \/ SketchSetup
    \/ startWiFiClientWait
    \/ SketchLoop
    \/ \E req \in RawRequests : answerRequest(req)
    \/ SketchLinkUp
    \/ LinkDown

SpecR == InitR /\ [][NextR]_vars

(***************************************************************************)
(* Properties: connectivity and the low-heap guard                         *)
(***************************************************************************)
\* the teardown block of the low-heap guard has run in this boot
TornDown == teardowns > 0

\* since the teardown a pass of loop() has met a heap above HEAP_HIGH
Recovered == "high" \in seenSince

\* C1: in every state after setup() the device is locally reachable (the
\* access point is up or the station is associated), and after a boot that
\* ended without a station connection the access point stays up.
C1_AlwaysReachable ==
    InLoop => /\ (ApUp \/ staLink)
              /\ (~staConnected => ApUp)

\* C2: the watermarks are ordered, HEAP_LOW < HEAP_HIGH, and once the guard
\* has torn the access point down it is not up again as long as no pass has
\* met a heap strictly above HEAP_HIGH.
C2_NoFlapBelowHigh ==
    /\ HEAP_LOW < HEAP_HIGH
    /\ (TornDown /\ ~Recovered) => ~ApUp

\* C2 witness: the access point started next to a connected station was torn
\* down, and the heap has stayed between the watermarks since
C2_Witness ==
    /\ staConnected
    /\ TornDown
    /\ seenSince = {"mid"}
    /\ ~ApUp

C4_TeardownAtMostOnce == teardowns <= 1

\* C4 witness: after the teardown of the access point started next to a
\* connected station, a later pass met a heap below HEAP_LOW again
C4_Witness ==
    /\ staConnected
    /\ teardowns = 1
    /\ "low" \in seenSince

\* C5: while the access point started next to a connected station is up, the
\* radio runs both roles and the station is still associated.
C5_DualRole ==
    (InLoop /\ staConnected /\ ApUp) =>
        /\ wifiMode = {"STA", "AP"}
        /\ staLink

(***************************************************************************)
(* Properties: configuration store                                         *)
(***************************************************************************)
\* the len bytes of the store from addr on
Field(mem, addr, len) == [i \in 1..len |-> mem[addr + i - 1]]

\* a string cut to a field of len bytes and padded with NUL
Cut(s, len) == [i \in 1..len |-> IF i <= Len(s) THEN s[i] ELSE 0]

\* the step is one of the firmware, not of its environment
ProgramStep == pc' # pc \/ clock' # clock

\* C6: when loadConfig() finds a sentinel other than MAGIC_VAL, the store it
\* leaves holds the sentinel and the default of every field, nothing of the
\* earlier content, and the globals hold what that store holds.
C6_DefaultsOnInvalidStore ==
    (pc = "setup_end" /\ ~loadedValid) =>
        /\ eeprom[MAGIC_ADDR] = MAGIC_VAL
        /\ Field(eeprom, HOST_ADDR, HOST_LEN) = Cut(S_remoteswitch, HOST_LEN)
        /\ Field(eeprom, SSID_ADDR, SSID_LEN) = Cut(S_empty, SSID_LEN)
        /\ Field(eeprom, PASS_ADDR, PASS_LEN) = Cut(S_empty, PASS_LEN)
        /\ eeprom[APF_ADDR] = 1
        /\ eeprom[STATE_ADDR] = 0
        /\ hostnameLocal = S_remoteswitch
        /\ storedSSID = S_empty
        /\ storedPASS = S_empty
        /\ apFallback = TRUE
        /\ relayState = 0

\* C6 witness: loadConfig() has run on a store without the sentinel
C6_Witness ==
    /\ pc = "setup_end"
    /\ ~loadedValid
    /\ eeprom[MAGIC_ADDR] = MAGIC_VAL

\* C7: a save request with an empty network name is answered 400 and changes
\* neither the store nor the configuration in RAM, and the device does not
\* restart.
C7_EmptyNameRejected ==
    [][ (ProgramStep /\ http'.req.kind = "save" /\ Len(http'.req.ssid) = 0) =>
            /\ http'.code = 400
            /\ eeprom' = eeprom
            /\ ram' = ram
            /\ pc' # "reset" ]_vars

\* C7 witness: such a request has been refused
C7_Witness ==
    /\ http.req.kind = "save"
    /\ Len(http.req.ssid) = 0
    /\ http.code = 400
    /\ pc = "loop_mqtt"

\* C8: a save request with a network name writes name, secret and hostname
\* (the current hostname when the field is left empty), each cut to its
\* field, whatever the state of the relay-state cooldown, answers 200 and
\* ends in a restart.
C8_SaveWritesAndRestarts ==
    [][ (ProgramStep /\ http'.req.kind = "save" /\ Len(http'.req.ssid) > 0) =>
            /\ Field(eeprom', SSID_ADDR, SSID_LEN) = Cut(http'.req.ssid, SSID_LEN)
            /\ Field(eeprom', PASS_ADDR, PASS_LEN) = Cut(http'.req.pass, PASS_LEN)
            /\ Field(eeprom', HOST_ADDR, HOST_LEN) =
                  Cut(IF Len(http'.req.host) # 0 THEN http'.req.host
                      ELSE hostnameLocal, HOST_LEN)
            /\ http'.code = 200
            /\ pc' = "reset" ]_vars

\* C8 witness: a save with values longer than their fields went through while
\* a relay-state write would have been held back
C8_Witness ==
    /\ pc = "reset"
    /\ http.req.kind = "save"
    /\ http.code = 200
    /\ Len(http.req.pass) > PASS_LEN
    /\ ThrottleBlocks(clock, lastStateWrite)

(***************************************************************************)
(* Properties: relay-state write throttle                                  *)
(***************************************************************************)
\* a call of saveRelayState is made in the step
CallStep == ProgramStep /\ persist' # "none"

\* the store as the saveRelayState call of the step finds it: in setup() the
\* call comes after loadConfig()
StoreAtCall ==
    IF pc = "setup"
    THEN loadConfig(eeprom, hostnameLocal, apFallback, relayState).mem
    ELSE eeprom

\* C9: a relay-state commit comes at least STATE_WRITE_MIN after the one
\* before it, and a call made earlier than that changes neither the store nor
\* the timestamp.
C9_CommitsSpaced ==
    [][ /\ (pc # "reset" /\ lastStateWrite' # lastStateWrite) =>
              /\ persist' = "committed"
              /\ lastStateWrite' = clock
              /\ ~ULess(lastStateWrite', lastStateWrite, STATE_WRITE_MIN)
        /\ (CallStep /\ ULess(clock, lastStateWrite, STATE_WRITE_MIN)) =>
              /\ persist' = "throttled"
              /\ eeprom' = StoreAtCall
              /\ lastStateWrite' = lastStateWrite ]_vars

\* C9 witness: after a commit, a call for another relay state was held back
C9_Witness ==
    /\ persist = "throttled"
    /\ lastStateWrite >= STATE_WRITE_MIN
    /\ eeprom[STATE_ADDR] # relayState

\* no further call can join the current burst
BurstOver == burstStart # None /\ ~ULess(clock, burstStart, STATE_WRITE_MIN)

\* C10: every burst of saveRelayState calls, whenever it starts since boot,
\* has exactly one commit.
C10_OneCommitPerBurst ==
    /\ burstCommits <= 1
    /\ BurstOver => burstCommits = 1

(***************************************************************************)
(* Properties: relay driver                                                *)
(***************************************************************************)
\* the relay state a stored byte stands for, as loadConfig() reads it
StoredRelay(mem) == IF mem[STATE_ADDR] = 1 THEN 1 ELSE 0

\* C11 as stated: after every applyRelay(s) call the persisted relay-state
\* byte equals s.
C11_MirroredOnEveryWrite ==
    persist # "none" => eeprom[STATE_ADDR] = relayState

\* C11 amended: after an applyRelay(s) call whose persistence step committed,
\* the persisted byte equals s; after one whose persistence step was held
\* back, the byte is what it was before the call.
C11_MirroredWhenCommitted ==
    [][ /\ (CallStep /\ persist' = "committed") =>
                  eeprom'[STATE_ADDR] = relayState'
        /\ (CallStep /\ persist' = "throttled") =>
                  eeprom'[STATE_ADDR] = StoreAtCall[STATE_ADDR] ]_vars

\* C11 witness: a request has switched the relay on inside the cooldown, and
\* the store still holds off: a restart now restores off
C11_Witness ==
    /\ http.req.kind = "on"
    /\ persist = "throttled"
    /\ relayState = 1
    /\ StoredRelay(eeprom) = 0

\* C12: the step of setup() that restores the relay leaves the canonical
\* state equal to the persisted byte, which it does not change, and the pin
\* at the matching level; until that step no radio role is enabled, the
\* station is not associated, no request has been answered and the session
\* is down.
C12_RestoredBeforeBringUp ==
    /\ [](pc = "setup" =>
            /\ wifiMode = {}
            /\ ~staLink
            /\ ~mqttConn
            /\ http = NoHttp)
    /\ [][ pc = "setup" /\ pc' # "setup" =>
            /\ relayState' = StoredRelay(eeprom')
            /\ pin' = relayState'
            /\ eeprom'[STATE_ADDR] = StoreAtCall[STATE_ADDR]
            /\ http' = NoHttp ]_vars

\* C12 witness: a boot has restored the relay to on from a store written by
\* an earlier boot
C12_Witness ==
    /\ pc \in {"sta_wait", "setup_end"}
    /\ clock = 0
    /\ loadedValid
    /\ eeprom[STATE_ADDR] = 1
    /\ relayState = 1
    /\ pin = 1

\* the relay value a request of the local surface asks for
Desired(req) == IF req.kind = "on" THEN 1 ELSE 0

\* C13: every on / off request calls applyRelay, and every applyRelay call,
\* whatever the state before it, leaves the canonical state at the value
\* asked for and the pin HIGH exactly when that value is 1, and calls
\* saveRelayState; so from the restore at boot on the pin is HIGH exactly
\* when the canonical state is 1.
C13_PinFollowsState ==
    /\ [](pc \notin {"reset", "setup"} =>
            /\ relayState \in {0, 1}
            /\ pin = relayState)
    /\ [][ /\ (ProgramStep /\ http'.req.kind \in {"on", "off"}) =>
                  /\ persist' # "none"
                  /\ relayState' = Desired(http'.req)
           /\ (CallStep => pin' = relayState')
           /\ (ProgramStep /\ relayState' # relayState /\ pc' # "setup") =>
                  persist' # "none" ]_vars

\* C13 witness: the first request of a boot asked for off, the state the
\* boot had restored, and saveRelayState was called all the same
C13_Witness ==
    /\ pc = "sta_wait"
    /\ clock <= 2 * Quantum
    /\ http.req.kind = "off"
    /\ persist = "throttled"
    /\ StoredRelay(eeprom) = 0
    /\ relayState = 0
    /\ pin = 0

\* C14: in every state and for each value s, a second applyRelay(s) right
\* after or some time after a first leaves the pin and the canonical state
\* as the first call left them, and each of the two calls reaches
\* saveRelayState, which commits or holds back by the time of that call alone.
C14_ApplyIdempotent ==
    \A s \in {0, 1}, d \in {0} \cup Durations :
        LET a1 == applyRelay(eeprom, lastStateWrite, s, clock)
            a2 == applyRelay(a1.mem, a1.last, s, clock + d)
        IN  /\ a2.relay = a1.relay
            /\ a2.pin = a1.pin
            /\ a1.relay = s
            /\ a1.outcome \in {"throttled", "committed"}
            /\ a2.outcome \in {"throttled", "committed"}
            /\ (a1.outcome = "committed") <=> ~ThrottleBlocks(clock, lastStateWrite)
            /\ (a2.outcome = "committed") <=> ~ThrottleBlocks(clock + d, a1.last)

\* C14 witness: a request has switched the relay on and committed it, and
\* the session is up, so that a command for on can follow in the same pass
C14_Witness ==
    /\ pc = "loop_mqtt"
    /\ http.req.kind = "on"
    /\ persist = "committed"
    /\ relayState = 1
    /\ staLink
    /\ mqttConn

(***************************************************************************)
(* Properties: request surface and boot-time bring-up                      *)
(***************************************************************************)
\* C15: a status request is answered 200 with "on" exactly when the
\* canonical relay state is 1, and the step changes neither the store, the
\* globals, the pin, the radio nor the session, calls no saveRelayState and
\* does not restart.
C15_StatusIsPureRead ==
    [][ (ProgramStep /\ http'.req.kind = "status") =>
            /\ http'.code = 200
            /\ http'.body = (IF relayState = 1 THEN "on" ELSE "off")
            /\ eeprom' = eeprom
            /\ ram' = ram
            /\ pin' = pin
            /\ radio' = radio
            /\ session' = session
            /\ staConnected' = staConnected
            /\ persist' = "none"
            /\ pc' # "reset" ]_vars

\* C15 witness: a status request was answered while the relay was on
C15_Witness ==
    /\ http.req.kind = "status"
    /\ http.code = 200
    /\ http.body = "on"
    /\ relayState = 1

\* C16: setup() enters the station wait, with the station role enabled, only
\* with a stored network name of more than one character; with a shorter
\* (or empty) name it goes from loadConfig() straight to the end of setup()
\* with no radio role enabled, starts the access point alone there, and
\* the station is neither enabled nor associated for the rest of the boot.
C16_ClientAttemptNeedsName ==
    /\ [](pc = "sta_wait" => Len(storedSSID) > 1)
    /\ []((pc = "setup_end" \/ InLoop) /\ Len(storedSSID) <= 1 =>
            /\ "STA" \notin wifiMode
            /\ ~staLink
            /\ ~staConnected)
    /\ [][ /\ (pc = "setup" /\ ProgramStep /\ Len(storedSSID') <= 1) =>
                  /\ pc' = "setup_end"
                  /\ wifiMode' = {}
           /\ (pc = "setup" /\ ProgramStep /\ Len(storedSSID') > 1) =>
                  /\ pc' = "sta_wait"
                  /\ wifiMode' = {"STA"}
           /\ (pc = "setup_end" /\ ProgramStep /\ Len(storedSSID) <= 1) =>
                  wifiMode' = {"AP"} ]_vars

\* C16 witness: a boot with a stored network name of one character is in
\* loop() with the access point alone
C16_Witness ==
    /\ InLoop
    /\ loadedValid
    /\ Len(storedSSID) = 1
    /\ wifiMode = {"AP"}
    /\ ~staConnected

\* C17: an evaluation of the wait loop with the station associated inside
\* the window ends the wait connected; the first evaluation after
\* STA_TIMEOUT has elapsed ends it not connected, and the end of setup()
\* then starts the access point alone; every evaluation that stays in the
\* wait takes at least STA_POLL_DELAY; and setup() always leaves the wait.
C17_BringUpEnds ==
    /\ [][ /\ (pc = "sta_wait" /\ ProgramStep /\ staLink
                 /\ ULess(clock, start, STA_TIMEOUT)) =>
                  /\ pc' = "setup_end"
                  /\ staConnected'
           /\ (pc = "sta_wait" /\ ProgramStep
                 /\ ~ULess(clock, start, STA_TIMEOUT)) =>
                  /\ pc' = "setup_end"
                  /\ ~staConnected'
           /\ (pc = "sta_wait" /\ pc' = "sta_wait" /\ ProgramStep) =>
                  /\ ULess(clock, start, STA_TIMEOUT)
                  /\ clock' - clock >= STA_POLL_DELAY
           /\ (pc = "setup_end" /\ ProgramStep /\ ~staConnected) =>
                  wifiMode' = {"AP"} ]_vars
    /\ (pc = "sta_wait" ~> pc # "sta_wait")

\* C17 witness: the wait has run out with a network name stored
C17_Witness ==
    /\ pc = "setup_end"
    /\ Len(storedSSID) > 1
    /\ ~staConnected
    /\ ~ULess(clock, start, STA_TIMEOUT)

\* C18: at every evaluation of the wait loop inside the window with the
\* station not associated, a waiting on or off request is served in that
\* iteration: the relay and the pin take the value asked for and setup()
\* is still in the wait, not connected.
C18_ServedDuringWait ==
    /\ []((pc = "sta_wait" /\ ~staLink /\ ULess(clock, start, STA_TIMEOUT)) =>
            \A k \in {"on", "off"} :
                ENABLED (/\ \E d \in Durations :
                              StaPoll(Req(k, S_empty, S_empty, S_empty), d)
                         /\ http'.req.kind = k
                         /\ relayState' = (IF k = "on" THEN 1 ELSE 0)
                         /\ pin' = relayState'
                         /\ pc' = "sta_wait"))
    /\ [][ (pc = "sta_wait" /\ ProgramStep /\ http'.req.kind \in {"on", "off"}) =>
                /\ relayState' = Desired(http'.req)
                /\ pin' = relayState'
                /\ http'.code = 302
                /\ pc' = "sta_wait"
                /\ ~staConnected' ]_vars

\* C18 witness: a request has switched the relay on during the wait
C18_Witness ==
    /\ pc = "sta_wait"
    /\ "STA" \in wifiMode
    /\ ~staConnected
    /\ http.req.kind = "on"
    /\ http.code = 302
    /\ relayState = 1
    /\ pin = 1

\* C19: at the end of a setup() that connected the station, the flag is the
\* one in the store, and the access point is started exactly when the flag
\* is set and the free heap read there is above HEAP_HIGH; when it was not
\* started there it is not up later in that boot.
C19_FallbackNeedsFlagAndHeap ==
    /\ [](pc = "setup_end" => (apFallback <=> eeprom[APF_ADDR] = 1))
    /\ [][ /\ (pc = "setup_end" /\ ProgramStep /\ staConnected) =>
                  /\ apFallback => fallbackHeap' \in HeapSamples
                  /\ ApUp' <=> (apFallback /\ fallbackHeap' > HEAP_HIGH)
           /\ (InLoop /\ staConnected /\ ~ApUp /\ pc' # "setup") =>
                  ~ApUp' ]_vars

\* C19 witness: the station is connected, the flag is set and the heap read
\* was exactly HEAP_HIGH: no access point
C19_Witness ==
    /\ InLoop
    /\ staConnected
    /\ apFallback
    /\ fallbackHeap = HEAP_HIGH
    /\ ~ApUp

(***************************************************************************)
(* Properties: session                                                     *)
(***************************************************************************)
\* C20: on a provisioned device whose network accepts it within the wait
\* and whose broker is reachable, whatever the fallback flag and the free
\* heap at boot, eventually the station is connected, the session is up and
\* the retained status at the broker says off.
C20_SessionComesUp ==
    <>(staConnected /\ staLink /\ mqttConn /\ statusPub = "off")

(***************************************************************************)
(* Properties: messaging session                                           *)
(***************************************************************************)
\* C21: the MQTT block of loop() calls mqtt.connect() only with the link up
\* and the session down, and not in the pass right after a pass whose
\* attempt failed: a delay longer than the pass itself separates attempts.
C21_AttemptsBackedOff ==
    [][ (pc = "loop_mqtt" /\ ProgramStep /\ mqttOut' # <<>>) =>
            /\ staLink
            /\ ~mqttConn
            /\ ~connectFailed ]_vars

\* C22: whenever the session comes up, the connect registers a retained
\* will "offline" on the availability topic, and the next packet is a
\* retained "online" on that topic, ahead of the subscription and the status.
C22_WillAndBirth ==
    [][ (~mqttConn /\ mqttConn') =>
            /\ Len(mqttOut') >= 2
            /\ mqttOut'[1] =
                  MqttOp("connect", "home/switch/alert", "offline", TRUE)
            /\ mqttOut'[2] =
                  MqttOp("publish", "home/switch/alert", "online", TRUE) ]_vars

\* C23: whenever the session comes up, whatever the broker holds from
\* before, the firmware subscribes to the control topic and then publishes
\* one retained status whose state is the canonical relay state, and that
\* is the only publish of the step.
C23_SubscribeThenStatus ==
    [][ (~mqttConn /\ mqttConn') =>
            /\ pc = "loop_mqtt"
            /\ Len(mqttOut') = 3
            /\ mqttOut'[1].op = "connect"
            /\ mqttOut'[2] =
                  MqttOp("subscribe", "home/switch/control", "", FALSE)
            /\ mqttOut'[3] =
                  MqttOp("publish", "home/switch/status",
                         IF relayState = 1 THEN "on" ELSE "off", TRUE)
            /\ statusPub' = mqttOut'[3].payload ]_vars

\* C23 witness: a session has come up with the relay on, which only a
\* command of an earlier session can have switched on
C23_Witness ==
    /\ pc = "loop_hb"
    /\ mqttConn
    /\ Len(mqttOut) = 3
    /\ mqttOut[3].payload = "on"
    /\ http = NoHttp
    /\ relayState = 1

\* C24: in a step of loop() taken with the link down nothing is sent to the
\* broker: no connect, no status, no heartbeat.
C24_SilentWhileLinkDown ==
    [][ (ProgramStep /\ ~staLink) => mqttOut' = <<>> ]_vars

\* a payload the callback has to drop
Malformed(msg) ==
    \/ ~msg.parsed
    \/ ~msg.switchIsInt
    \/ ~msg.commandIsStr
    \/ msg.switch # 1
    \/ msg.command \notin {"on", "off"}

\* C25: with the session up, mqtt.loop() can deliver each malformed
\* payload, and no step that delivers one changes the relay state, the pin,
\* the store, the throttle timestamp or the session, or sends anything.
C25_MalformedDropped ==
    (pc = "loop_mqtt" /\ staLink /\ mqttConn) =>
        \A msg \in {m \in Messages : Malformed(m)} :
            /\ ENABLED LoopMqtt(TRUE, msg)
            /\ ~ENABLED (/\ LoopMqtt(TRUE, msg)
                         /\ ~(/\ relayState' = relayState
                              /\ pin' = pin
                              /\ eeprom' = eeprom
                              /\ lastStateWrite' = lastStateWrite
                              /\ session' = session
                              /\ persist' = "none"
                              /\ mqttOut' = <<>>))

\* C25 witness: with the relay on and the session up, mqtt.loop() has
\* returned without a call of applyRelay and nothing was sent
C25_Witness ==
    /\ pc = "loop_hb"
    /\ staLink
    /\ mqttConn
    /\ relayState = 1
    /\ persist = "none"
    /\ mqttOut = <<>>

\* C26: a step of the MQTT block in which the callback applies a command
\* sends one retained status carrying the new relay state.
C26_CommandThenStatus ==
    [][ (pc = "loop_mqtt" /\ CallStep) =>
            /\ mqttOut' =
                  <<MqttOp("publish", "home/switch/status",
                           IF relayState' = 1 THEN "on" ELSE "off", TRUE)>>
            /\ statusPub' = mqttOut'[1].payload ]_vars

\* C27: the heartbeat block sends the heartbeat exactly when the session is
\* up and more than HB_INTERVAL has passed since the timer was set, sets the
\* timer to now once that time has passed, sent or not, and leaves it alone
\* before; it sends nothing else and changes neither session nor radio.
C27_HeartbeatGated ==
    [][ (pc = "loop_hb" /\ ProgramStep) =>
            /\ (mqttOut' # <<>>) <=>
                  (mqttConn /\ clock - lastHeartbeat > HB_INTERVAL)
            /\ mqttOut' # <<>> =>
                  mqttOut' = <<MqttOp("publish", "home/switch/heartbeat",
                                      "uptime", TRUE)>>
            /\ lastHeartbeat' = (IF clock - lastHeartbeat > HB_INTERVAL
                                 THEN clock ELSE lastHeartbeat)
            /\ session' = session
            /\ radio' = radio ]_vars

\* C27 witness: the timer was set to now with the session down, and nothing
\* was sent
C27_Witness ==
    /\ pc = "loop_guard"
    /\ ~mqttConn
    /\ lastHeartbeat = clock
    /\ clock > 0
    /\ mqttOut = <<>>

(***************************************************************************)
(* Properties: who writes the store                                        *)
(***************************************************************************)
\* sentinel, hostname, network name and secret as the store holds them
Identity(mem) ==
    <<mem[MAGIC_ADDR], Field(mem, HOST_ADDR, HOST_LEN),
      Field(mem, SSID_ADDR, SSID_LEN), Field(mem, PASS_ADDR, PASS_LEN)>>

\* the step is an accepted POST /save, which ends in a restart
AcceptedSave ==
    /\ http'.req.kind = "save"
    /\ Len(http'.req.ssid) > 0
    /\ http'.code = 200
    /\ pc' = "reset"

\* C28 as stated: after loadConfig() the sentinel, the hostname, the
\* network name, the secret and the fallback flag in the store change only
\* in an accepted save, which is followed by a restart.
C28_OnlySaveWrites ==
    [][ (pc # "setup" /\ (Identity(eeprom') # Identity(eeprom)
                           \/ eeprom'[APF_ADDR] # eeprom[APF_ADDR])) =>
            AcceptedSave ]_vars

\* C28: after loadConfig() the sentinel, the hostname, the network name and
\* the secret in the store change only in an accepted save, which is
\* followed by a restart; the fallback flag changes only in the low-heap
\* block of loop(), which clears it and goes on without a restart;
\* loadConfig() itself leaves all of them alone when the sentinel is valid.
C28_SaveAndGuardWrite ==
    [][ /\ (pc # "setup" /\ eeprom' # eeprom
                          /\ Identity(eeprom') # Identity(eeprom)) =>
              AcceptedSave
        /\ (pc # "setup" /\ eeprom'[APF_ADDR] # eeprom[APF_ADDR]) =>
              /\ pc = "loop_guard"
              /\ apFallback
              /\ ~apFallback'
              /\ eeprom'[APF_ADDR] = 0
              /\ pc' = "loop_web"
        /\ (pc = "setup" /\ SentinelOk(eeprom) /\ eeprom' # eeprom) =>
              /\ Identity(eeprom') = Identity(eeprom)
              /\ eeprom'[APF_ADDR] = eeprom[APF_ADDR] ]_vars

\* C28 witness: the low-heap block has cleared the flag in the store of a
\* device whose store was valid at boot, and loop() has gone on
C28_Witness ==
    /\ pc = "loop_web"
    /\ loadedValid
    /\ teardowns = 1
    /\ seenSince = {}
    /\ eeprom[APF_ADDR] = 0
    /\ eeprom[MAGIC_ADDR] = MAGIC_VAL
    /\ ~apFallback

\* C29: a call of saveRelayState with the relay state the store already
\* holds ends without EEPROM.write() and EEPROM.commit(), and leaves the
\* throttle timestamp alone, also when the cooldown has passed.
C29_NoCommitWithoutChange ==
    [][ (CallStep /\ relayState' = StoredRelay(StoreAtCall)) =>
            /\ persist' # "committed"
            /\ lastStateWrite' = lastStateWrite ]_vars

\* C30: a pass of the low-heap block made without an access point next to a
\* connected station leaves the radio roles and the fallback flag in the
\* store as they are, whatever the free heap.
C30_GuardOnlyFromFallback ==
    [][ (pc = "loop_guard" /\ ProgramStep /\ ~(staConnected /\ ApUp)) =>
            /\ wifiMode' = wifiMode
            /\ eeprom'[APF_ADDR] = eeprom[APF_ADDR] ]_vars

Kept(s, cap) == IF Len(s) < cap THEN s ELSE SubSeq(s, 1, cap - 1)

\* eWriteStr of s into the field and eReadStr from it, on the store mem:
\* the string read back, and no byte outside the field written
FieldRoundTrip(mem, addr, cap, s) ==
    LET m == eWriteStr(mem, addr, s, cap)
    IN  /\ eReadStr(m, addr, cap) = Kept(s, cap)
        /\ \A a \in DOMAIN mem :
              (a < addr \/ a >= addr + cap) => m[a] = mem[a]

\* C32: for the values of every accepted save, on the store the save
\* finds, each of the three fields reads back the value written when it is
\* shorter than the field and its first capacity - 1 characters otherwise,
\* and its write stays inside the field; the globals after the save hold
\* these strings and the store outside the three fields is as before.
C32_FieldRoundTrip ==
    [][ AcceptedSave =>
            LET host == IF Len(http'.req.host) # 0 THEN http'.req.host
                        ELSE hostnameLocal
            IN  /\ FieldRoundTrip(eeprom, SSID_ADDR, 32, http'.req.ssid)
                /\ FieldRoundTrip(eeprom, PASS_ADDR, 64, http'.req.pass)
                /\ FieldRoundTrip(eeprom, HOST_ADDR, 32, host)
                /\ storedSSID' = Kept(http'.req.ssid, 32)
                /\ storedPASS' = Kept(http'.req.pass, 64)
                /\ hostnameLocal' = Kept(host, 32)
                /\ \A a \in DOMAIN eeprom :
                      (a = MAGIC_ADDR \/ a >= APF_ADDR) =>
                          eeprom'[a] = eeprom[a] ]_vars

\* C32 witness: a network name as long as its field was saved and came back
\* one character shorter, next to a secret shorter than its field
C32_Witness ==
    /\ pc = "reset"
    /\ http.req.kind = "save"
    /\ http.code = 200
    /\ Len(http.req.ssid) = SSID_LEN
    /\ Len(storedSSID) = SSID_LEN - 1
    /\ storedPASS = Kept(http.req.pass, PASS_LEN)

(***************************************************************************)
(* Properties: the two control surfaces                                    *)
(***************************************************************************)
\* the relay value a request or a payload asks for
Asked(word) == IF word = "on" THEN 1 ELSE 0

\* the two payloads mqttCallback() acts on
Commands ==
    {Msg(TRUE, TRUE, 1, TRUE, "on"), Msg(TRUE, TRUE, 1, TRUE, "off")}

\* C33: when the MQTT block of a pass begins, the request web.handleClient()
\* served in that pass is complete: relay state and pin are the ones it
\* asked for.  A command mqtt.loop() then delivers in the same pass is
\* applied whole and decides the state and the pin of the pass, a pass
\* without command keeps those of the request, and the heartbeat and
\* low-heap blocks that end the pass touch neither.
C33_SurfacesInOrder ==
    /\ []((pc = "loop_mqtt" /\ http.req.kind \in {"on", "off"}) =>
             /\ relayState = Asked(http.req.kind)
             /\ pin = relayState
             /\ (staLink /\ mqttConn) =>
                   /\ \A msg \in Commands :
                         /\ ENABLED LoopMqtt(TRUE, msg)
                         /\ ~ENABLED (/\ LoopMqtt(TRUE, msg)
                                      /\ ~(/\ relayState' = Asked(msg.command)
                                           /\ pin' = relayState'
                                           /\ persist' # "none"))
                   /\ ~ENABLED (/\ LoopMqtt(TRUE, NoMsg)
                                /\ ~(/\ relayState' = relayState
                                     /\ pin' = pin)))
    /\ [][ (pc \in {"loop_hb", "loop_guard"} /\ ProgramStep) =>
              /\ relayState' = relayState
              /\ pin' = pin ]_vars

\* C33 witness: with the session up, a pass has served GET /on and
\* committed it, so that a command of the same pass meets the cooldown
C33_Witness ==
    /\ pc = "loop_mqtt"
    /\ staLink
    /\ mqttConn
    /\ http.req.kind = "on"
    /\ relayState = 1
    /\ persist = "committed"

(***************************************************************************)
(* Properties: across restarts                                             *)
(***************************************************************************)
\* the store is valid and holds a cleared fallback flag; the firmware
\* itself writes the flag as 1 when it finds no valid store, so only the
\* low-heap block can have cleared it
FlagCleared(mem) == SentinelOk(mem) /\ mem[APF_ADDR] = 0

\* C34: once the store is valid with the fallback flag cleared, every step
\* of the firmware, restarts and accepted saves included, leaves it so; the
\* flag loadConfig() hands to the rest of setup() and to loop() is then
\* clear, and no access point is up next to a connected station.
C34_FlagStaysCleared ==
    /\ [][ FlagCleared(eeprom) => FlagCleared(eeprom') ]_vars
    /\ []((FlagCleared(eeprom) /\ pc \notin {"reset", "setup"}) =>
             /\ ~apFallback
             /\ (staConnected => ~ApUp))

\* C34 witness: a boot that found the flag cleared by an earlier one has
\* connected its station and runs loop() without access point
C34_Witness ==
    /\ pc = "loop_web"
    /\ loadedValid
    /\ FlagCleared(eeprom)
    /\ teardowns = 0
    /\ staConnected
    /\ staLink
    /\ wifiMode = {"STA"}

\* the network name setup() finds in a valid store
StoredName(mem) == eReadStr(mem, SSID_ADDR, SSID_LEN)

\* C35: a boot that finds a valid store with a network name, which only an
\* accepted save can have put there, switches the station role on and
\* enters the station wait.
C35_SavedNameIsTried ==
    [][ (pc = "setup" /\ SentinelOk(eeprom)
                      /\ Len(StoredName(eeprom)) > 0) =>
            /\ pc' = "sta_wait"
            /\ "STA" \in wifiMode' ]_vars

\* C36: an accepted save leaves the sentinel, the fallback flag and the
\* last-relay-state byte of the store as they were, the restart leaves the
\* store alone, and the setup() that follows sets relay state and pin to
\* the state that byte holds.
C36_SaveKeepsRelayState ==
    [][ /\ AcceptedSave =>
              /\ eeprom'[MAGIC_ADDR] = eeprom[MAGIC_ADDR]
              /\ eeprom'[APF_ADDR] = eeprom[APF_ADDR]
              /\ eeprom'[STATE_ADDR] = eeprom[STATE_ADDR]
        /\ pc = "reset" => eeprom' = eeprom
        /\ (pc = "setup" /\ SentinelOk(eeprom)) =>
              /\ relayState' = StoredRelay(eeprom)
              /\ pin' = relayState'
              /\ eeprom'[STATE_ADDR] = eeprom[STATE_ADDR] ]_vars

\* C36 witness: a save went through on a store that held the relay as on
\* and the fallback flag cleared, and still does
C36_Witness ==
    /\ pc = "reset"
    /\ http.req.kind = "save"
    /\ http.code = 200
    /\ eeprom[STATE_ADDR] = 1
    /\ eeprom[APF_ADDR] = 0
    /\ SentinelOk(eeprom)

AttemptFailed ==
    /\ pc \in {"sk_boot_wait", "sk_retry_wait"}
    /\ pc' \notin {"sk_boot_wait", "sk_retry_wait"}
    /\ ~staLink

Prepared(img, member) ==
    \E n \in 0..(member.size - 1) :
        /\ img[member.off + n] = 0
        /\ \A i \in 0..(n - 1) : img[member.off + i] \notin {0, 255}

\* C39: when the sketch loads a store whose host-name sentinel says it was
\* never initialised, every member of the configuration record is set to a
\* default, none keeps what the store held, and the record is written back
\* before it is used
C39_WholeRecordDefaulted ==
    [][(pc = "sk_setup" /\ Uninitialized(EepromGet(eeprom))) =>
          /\ \A f \in DOMAIN Config : Prepared(settings', Config[f])
          /\ EepromGet(eeprom') = settings']_vars

====
